---- MODULE Spec2Model ----
(***************************************************************************)
(* Model of guraNotesBackend (src/server.js).  The file holds two         *)
(* implementations of the same service, one after the other: the first    *)
(* (lines 1-151) and the second (lines 153-361).  A deployment runs one   *)
(* of them; `variant` records which, and every handler below is the       *)
(* translation of that variant's route.                                   *)
(*                                                                         *)
(* Each client has at most one request in flight.  A handler runs up to   *)
(* its first store operation together with that operation as one step;    *)
(* every further awaited store operation is a step of its own, between    *)
(* which the requests of other clients run.  `last` is the exchange that   *)
(* was completed last: the request as it came in, with the time it came   *)
(* in at, and the response to it.                                         *)
(***************************************************************************)
EXTENDS Integers, Sequences, FiniteSets, TLC

\* ---------------------------------------------------------------- bounds
MaxAccounts == 2      \* ObjectIds handed out to users and drawers together
MaxNotes == 2         \* ObjectIds handed out to notes
MaxJumps == 1         \* expiry periods the clock may pass

\* expiresIn: "7d".  The clock `now` counts milliseconds (Date); a token's
\* exp claim counts seconds.
ExpiresIn == 7 * 24 * 60 * 60

PeriodMs == ExpiresIn * 1000

Seconds(ms) == ms \div 1000

Clients == {"c1", "c2"}
Emails == {"a@x.com", "b@x.com"}
DrawerNames == {"team1"}
Missing == ""                         \* an absent or empty body field
Passwords == {"pw1", "pw2"}           \* passwords accounts are made with
Guesses == {"pw1"}                    \* passwords logins are tried with
Salts == {"s1"}
Undefined == "<undefined>"            \* a body field the client left out

VARIABLES variant, now, users, drawers, notes, nextId, nextNoteId,
          issued, pc, req, loc, last

vars == <<variant, now, users, drawers, notes, nextId, nextNoteId,
          issued, pc, req, loc, last>>

\* ------------------------------------------------------------ null values
NoToken == [id |-> 0, type |-> "none", exp |-> 0, sig |-> "none"]
NoUser == [id |-> 0, type |-> "none"]
NullDoc == [id |-> 0, ownerType |-> "null", ownerId |-> 0, title |-> Undefined,
            content |-> Undefined, createdAt |-> 0]
NoExtra == [ownerType |-> "none", ownerId |-> 0]
NoReq == [kind |-> "none", at |-> 0, name |-> Missing, password |-> Missing,
          header |-> <<>>, noteId |-> 0, title |-> Undefined, content |-> Undefined,
          extra |-> NoExtra]
NoLoc == [user |-> NoUser, doc |-> NullDoc]
NoExchange == [req |-> NoReq, status |-> 0, error |-> "",
               token |-> NoToken, body |-> <<>>]

\* ------------------------------------------------- external primitives
\* bcrypt.hash(password, rounds): salted and one-way; the digest is a function
\* of the salt and the password, and is never the password itself.
BcryptHash(password, salt) == [salt |-> salt, digest |-> <<salt, password>>]

\* bcrypt.compare(password, hash)
BcryptCompare(password, hash) == hash.digest = <<hash.salt, password>>

\* jwt.sign(payload, JWT_SECRET, { expiresIn: "7d" })
signToken(payload, t) ==
    [id |-> payload.id, type |-> payload.type, exp |-> Seconds(t) + ExpiresIn, sig |-> "good"]

\* A verification that reads the claims and skips the signature
JwtVerifyNoSignature(token, t) == token # NoToken /\ Seconds(t) < token.exp

\* jwt.verify(token, JWT_SECRET): throws on a missing token, a bad signature
\* or an expired claim (clock >= exp).
JwtVerify(token, t) == token # NoToken /\ token.sig = "good" /\ Seconds(t) < token.exp

\* header.split(" ")[1]; the header is kept as its list of words
BearerToken(header) == IF Len(header) >= 2 THEN header[2] ELSE NoToken

\* ------------------------------------------------------------------ Init
Init ==
    /\ variant \in {1, 2}
    /\ now = 0
    /\ users = {}
    /\ drawers = {}
    /\ notes = {}
    /\ nextId = 1
    /\ nextNoteId = 1
    /\ issued = {}
    /\ pc = [c \in Clients |-> "idle"]
    /\ req = [c \in Clients |-> NoReq]
    /\ loc = [c \in Clients |-> NoLoc]
    /\ last = NoExchange

\* ----------------------------------------------------------------- clock
\* Time passes, here by a whole expiry period at once.
Jump ==
    /\ (now \div PeriodMs) < MaxJumps
    /\ now' = now + PeriodMs
    /\ UNCHANGED <<variant, users, drawers, notes, nextId, nextNoteId, issued, pc, req, loc, last>>

\* --------------------------------------------------------------- clients
\* The Authorization headers a client can send: none, the scheme alone, a
\* token it forged (not signed with JWT_SECRET), or a token the service gave
\* out.
ForgedTokens == {[id |-> 1, type |-> "user", exp |-> (MaxJumps + 2) * ExpiresIn, sig |-> "bad"]}

Headers ==
    {<<>>, <<"Bearer">>} \cup {<<"Bearer", t>> : t \in ForgedTokens \cup issued}

NoteIds == 1..MaxNotes

\* Fields beside title and content in the body of an update: the bodies here
\* all carry an ownerType and an ownerId, which a plain client leaves out.
ExtraFields == {[ownerType |-> "drawer", ownerId |-> 1]}

\* A request that comes in now
Arriving(kind) == [NoReq EXCEPT !.kind = kind, !.at = now]

\* The bodies of account requests; the password may be missing.
AccountRequests(kind, names, passwords) ==
    {[Arriving(kind) EXCEPT !.name = n, !.password = p] :
        n \in names, p \in passwords \cup {Missing}}

ListRequests == {[Arriving("list") EXCEPT !.header = h] : h \in Headers}

CreateRequests ==
    {[Arriving("create") EXCEPT !.header = h, !.title = "A"] : h \in Headers}

UpdateRequests ==
    {[Arriving("update") EXCEPT !.header = h, !.noteId = id,
                                !.title = "C", !.content = "D", !.extra = x] :
        h \in Headers, id \in NoteIds, x \in ExtraFields}

DeleteRequests ==
    {[Arriving("delete") EXCEPT !.header = h, !.noteId = id] :
        h \in Headers, id \in NoteIds}

\* ------------------------------------------------------------- responses
\* The request r of client c is over; the response is sent.
Finish(c, at, r, status, error, token, body) ==
    /\ pc' = [pc EXCEPT ![c] = at]
    /\ req' = [req EXCEPT ![c] = NoReq]
    /\ loc' = [loc EXCEPT ![c] = NoLoc]
    /\ last' = [req |-> r, status |-> status, error |-> error,
                token |-> token, body |-> body]

\* res.status(status).json({ error })
Reply(c, r, status, error) == Finish(c, "idle", r, status, error, NoToken, <<>>)

\* res.json({ token, ... })
ReplyToken(c, r, token) ==
    /\ Finish(c, "idle", r, 200, "", token, <<>>)
    /\ issued' = issued \cup {token}

\* res.json(notes), res.json(note), res.json({ success: true })
ReplyBody(c, r, body) == Finish(c, "idle", r, 200, "", NoToken, body)

\* The handler of request r goes on to its next store operation.
Continue(c, at, r, l) ==
    /\ pc' = [pc EXCEPT ![c] = at]
    /\ req' = [req EXCEPT ![c] = r]
    /\ loc' = [loc EXCEPT ![c] = l]
    /\ last' = last

\* ------------------------------------------------------- auth middleware
AuthError(header) ==
    IF variant = 1
    THEN IF BearerToken(header) = NoToken THEN "No token" ELSE "Invalid token"
    ELSE IF header = <<>> THEN "No auth token" ELSE "Invalid token"

\* auth (first service) and authMiddleware (second service): whether next()
\* is called, and the req.user it is called with.
Authenticated(header) == JwtVerify(BearerToken(header), now)

ReqUser(header) == [id |-> BearerToken(header).id, type |-> BearerToken(header).type]

Reject(c, r) ==
    /\ Reply(c, r, 401, AuthError(r.header))
    /\ UNCHANGED <<variant, now, users, drawers, notes, nextId, nextNoteId, issued>>

\* ------------------------------------------------------- account routes
\* Both services keep one handler per account kind; the two kinds differ in
\* the collection, the key field and the messages.
Msg(kind, what) ==
    IF variant = 1
    THEN CASE what = "required" ->
                 (IF kind = "user" THEN "Email and password required"
                  ELSE "Drawer name and password required")
           [] what = "exists" ->
                 (IF kind = "user" THEN "User already exists" ELSE "Drawer already exists")
           [] what = "unknown" ->
                 (IF kind = "user" THEN "User not found" ELSE "Drawer not found")
           [] what = "mismatch" -> "Wrong password"
    ELSE CASE what = "required" ->
                 (IF kind = "user" THEN "email and password required"
                  ELSE "drawerName and password required")
           [] what = "exists" ->
                 (IF kind = "user" THEN "Email already in use" ELSE "Drawer name taken")
           [] what = "unknown" -> "Invalid credentials"
           [] what = "mismatch" -> "Invalid credentials"

Collection(kind) == IF kind = "user" THEN users ELSE drawers

\* A lookup that never finds a record
FindOneNoMatch(kind, name) == {}

\* Model.findOne({ email }) / Model.findOne({ drawerName }): the records that
\* carry the name; findOne answers one of them, or null when there is none.
FindOne(kind, name) == {a \in Collection(kind) : a.name = name}

\* unique: true on email / drawerName (second service only): the store
\* refuses an insert whose key is already present.
UniqueIndex == variant = 2

\* Model.create(...) / new Model(...).save() with a fresh _id
Insert(kind, account) ==
    /\ users' = IF kind = "user" THEN users \cup {account} ELSE users
    /\ drawers' = IF kind = "drawer" THEN drawers \cup {account} ELSE drawers
    /\ nextId' = nextId + 1

\* First part of POST /api/register and POST /api/drawers[/create]:
\* validation and the existence check.
CheckNew(c, r, kind, savePc) ==
    /\ IF r.name = Missing \/ r.password = Missing
       THEN Reply(c, r, 400, Msg(kind, "required"))
       ELSE IF FindOne(kind, r.name) # {}
            THEN Reply(c, r, 400, Msg(kind, "exists"))
            ELSE Continue(c, savePc, r, NoLoc)
    /\ UNCHANGED <<variant, now, users, drawers, notes, nextId, nextNoteId, issued>>

\* Second part: hash, insert, sign.  The hash is computed between the check
\* and the insert and touches no shared state.
SaveNew(c, kind) ==
    /\ IF UniqueIndex /\ \E a \in Collection(kind) : a.name = req[c].name
       THEN /\ Reply(c, req[c], 500, "server error")
            /\ UNCHANGED <<users, drawers, nextId, issued>>
       ELSE /\ nextId <= MaxAccounts
            /\ \E salt \in Salts :
                 Insert(kind, [id |-> nextId, name |-> req[c].name,
                               passwordHash |-> BcryptHash(req[c].password, salt)])
            /\ ReplyToken(c, req[c], signToken([id |-> nextId, type |-> kind], now))
    /\ UNCHANGED <<variant, now, notes, nextNoteId>>

\* POST /api/login and POST /api/drawers/login.  The lookup and the compare
\* read one immutable record, so they are one step.  The first service does
\* not validate the body: bcrypt.compare rejects a missing password, the
\* handler throws outside any try, and no response is sent; that exchange
\* never completes and is no step here.
LoginAs(c, r, kind) ==
    /\ IF variant = 2 /\ (r.name = Missing \/ r.password = Missing)
       THEN /\ Reply(c, r, 400, Msg(kind, "required"))
            /\ issued' = issued
       ELSE IF FindOne(kind, r.name) = {}
            THEN /\ Reply(c, r, 400, Msg(kind, "unknown"))
                 /\ issued' = issued
            ELSE \E a \in FindOne(kind, r.name) :
                   /\ r.password # Missing
                   /\ IF BcryptCompare(r.password, a.passwordHash)
                      THEN ReplyToken(c, r, signToken([id |-> a.id, type |-> kind], now))
                      ELSE /\ Reply(c, r, 400, Msg(kind, "mismatch"))
                           /\ issued' = issued
    /\ UNCHANGED <<variant, now, users, drawers, notes, nextId, nextNoteId>>

Register(c) ==
    /\ pc[c] = "idle"
    /\ \E r \in AccountRequests("register", Emails, Passwords) : CheckNew(c, r, "user", "registerSave")

RegisterSave(c) == pc[c] = "registerSave" /\ SaveNew(c, "user")

Login(c) ==
    /\ pc[c] = "idle"
    /\ \E r \in AccountRequests("login", Emails, Guesses) : LoginAs(c, r, "user")

CreateDrawer(c) ==
    /\ pc[c] = "idle"
    /\ \E r \in AccountRequests("createDrawer", DrawerNames, Passwords) :
          CheckNew(c, r, "drawer", "createDrawerSave")

CreateDrawerSave(c) == pc[c] = "createDrawerSave" /\ SaveNew(c, "drawer")

LoginDrawer(c) ==
    /\ pc[c] = "idle"
    /\ \E r \in AccountRequests("loginDrawer", DrawerNames, Guesses) : LoginAs(c, r, "drawer")

\* ---------------------------------------------------------- note routes
\* A filter that lets every note through
MatchesAny(n, user) == TRUE

\* The filter of GET /api/notes: { ownerType: type, ownerId: id }
Matches(n, user) == n.ownerType = user.type /\ n.ownerId = user.id

\* The orders in which a query can hand back the set S of documents
Orderings(S) ==
    {s \in [1..Cardinality(S) -> S] : \A i, j \in 1..Cardinality(S) : s[i] = s[j] => i = j}

\* .sort({ createdAt: -1 }): newest first; documents with equal createdAt
\* come in an order the store chooses.
SortedNewestFirst(s) ==
    \A i, j \in 1..Len(s) : i < j => s[i].createdAt >= s[j].createdAt

\* Note.find(filter) in the first service (natural order, which the store
\* does not promise), Note.find(filter).sort({ createdAt: -1 }) in the second.
Find(user) ==
    LET found == {n \in notes : Matches(n, user)} IN
    IF variant = 1 THEN Orderings(found)
    ELSE {s \in Orderings(found) : SortedNewestFirst(s)}

\* GET /api/notes
List(c) ==
    /\ pc[c] = "idle"
    /\ \E r \in ListRequests :
         IF ~Authenticated(r.header) THEN Reject(c, r)
         ELSE /\ \E s \in Find(ReqUser(r.header)) : ReplyBody(c, r, s)
              /\ UNCHANGED <<variant, now, users, drawers, notes, nextId, nextNoteId, issued>>

\* req.body.title || ""   /   const { title = '', content = '' } = req.body
OrEmpty(field) == IF field = Undefined THEN "" ELSE field

\* POST /api/notes.  The document, its _id and its createdAt are made by the
\* handler and inserted by one store operation.
Create(c) ==
    /\ pc[c] = "idle"
    /\ \E r \in CreateRequests :
         IF ~Authenticated(r.header) THEN Reject(c, r)
         ELSE /\ nextNoteId <= MaxNotes
              /\ LET note == [id |-> nextNoteId,
                              ownerType |-> ReqUser(r.header).type,
                              ownerId |-> ReqUser(r.header).id,
                              title |-> OrEmpty(r.title),
                              content |-> OrEmpty(r.content),
                              createdAt |-> now] IN
                  /\ notes' = notes \cup {note}
                  /\ nextNoteId' = nextNoteId + 1
                  /\ ReplyBody(c, r, <<note>>)
              /\ UNCHANGED <<variant, now, users, drawers, nextId, issued>>

\* An update that writes every field of the body ($set: req.body)
SetAllOfBody(n, r) ==
    [n EXCEPT !.title = r.title, !.content = r.content,
              !.ownerType = IF r.extra = NoExtra THEN @ ELSE r.extra.ownerType,
              !.ownerId = IF r.extra = NoExtra THEN @ ELSE r.extra.ownerId]

\* The fields an update writes: title and content of the body, nothing else
\* of it.  (The second service also stamps updatedAt, a field nothing reads;
\* it is left out of the note records.)
SetFields(n, r) == [n EXCEPT !.title = r.title, !.content = r.content]

\* The ownership test of update and delete.  First service: the query filter
\* { _id, ownerId: req.user.id }.  Second service: the comparison of both
\* ownerId and ownerType after findById.
Owns(user, n) ==
    IF variant = 1 THEN n.ownerId = user.id
    ELSE n.ownerId = user.id /\ n.ownerType = user.type

\* A save that writes the whole document back, present or not
SaveUpsert(doc) == {n \in notes : n.id # doc.id} \cup {doc}

\* note.save() of a loaded document: an update of the stored document with
\* that _id, by the fields the handler set; it inserts nothing.
Save(doc) ==
    {IF n.id = doc.id THEN [n EXCEPT !.title = doc.title, !.content = doc.content]
     ELSE n : n \in notes}

\* PUT /api/notes/:id, first service: one findOneAndUpdate, whose result
\* (the updated document or null) is sent with status 200.
UpdateV1(c, r) ==
    LET hit == {n \in notes : n.id = r.noteId /\ Owns(ReqUser(r.header), n)} IN
    IF hit = {}
    THEN /\ ReplyBody(c, r, <<NullDoc>>)
         /\ notes' = notes
    ELSE \E n \in hit :
           /\ notes' = (notes \ {n}) \cup {SetFields(n, r)}
           /\ ReplyBody(c, r, <<SetFields(n, r)>>)

\* Second service: findById, the two checks, and the assignments to the
\* loaded document; the save is a second store operation.
UpdateV2(c, r) ==
    /\ notes' = notes
    /\ LET hit == {n \in notes : n.id = r.noteId} IN
       IF hit = {}
       THEN Reply(c, r, 404, "not found")
       ELSE \E n \in hit :
              IF ~Owns(ReqUser(r.header), n)
              THEN Reply(c, r, 403, "forbidden")
              ELSE Continue(c, "updateSave", r,
                            [user |-> ReqUser(r.header), doc |-> SetFields(n, r)])

Update(c) ==
    /\ pc[c] = "idle"
    /\ \E r \in UpdateRequests :
         IF ~Authenticated(r.header) THEN Reject(c, r)
         ELSE /\ IF variant = 1 THEN UpdateV1(c, r) ELSE UpdateV2(c, r)
              /\ UNCHANGED <<variant, now, users, drawers, nextId, nextNoteId, issued>>

\* await note.save(); res.json(note).  When the document is gone the save
\* writes nothing; it then either reports that (500) or passes silently
\* (200), depending on the library version.
UpdateSave(c) ==
    /\ pc[c] = "updateSave"
    /\ notes' = Save(loc[c].doc)
    /\ \/ ReplyBody(c, req[c], <<loc[c].doc>>)
       \/ /\ \A n \in notes : n.id # loc[c].doc.id
          /\ Reply(c, req[c], 500, "server error")
    /\ UNCHANGED <<variant, now, users, drawers, nextId, nextNoteId, issued>>

\* DELETE /api/notes/:id, first service: one deleteOne by { _id, ownerId },
\* answered { success: true } whatever it matched.
DeleteV1(c, r) ==
    /\ notes' = {n \in notes : ~(n.id = r.noteId /\ Owns(ReqUser(r.header), n))}
    /\ ReplyBody(c, r, <<>>)

\* Second service: findById and the two checks; deleteOne({ _id }) follows as
\* a second store operation.
DeleteV2(c, r) ==
    /\ notes' = notes
    /\ LET hit == {n \in notes : n.id = r.noteId} IN
       IF hit = {}
       THEN Reply(c, r, 404, "not found")
       ELSE \E n \in hit :
              IF ~Owns(ReqUser(r.header), n)
              THEN Reply(c, r, 403, "forbidden")
              ELSE Continue(c, "deleteOne", r, [NoLoc EXCEPT !.user = ReqUser(r.header)])

Delete(c) ==
    /\ pc[c] = "idle"
    /\ \E r \in DeleteRequests :
         IF ~Authenticated(r.header) THEN Reject(c, r)
         ELSE /\ IF variant = 1 THEN DeleteV1(c, r) ELSE DeleteV2(c, r)
              /\ UNCHANGED <<variant, now, users, drawers, nextId, nextNoteId, issued>>

\* await Note.deleteOne({ _id: noteId }); res.json({ success: true })
DeleteOne(c) ==
    /\ pc[c] = "deleteOne"
    /\ notes' = {n \in notes : n.id # req[c].noteId}
    /\ ReplyBody(c, req[c], <<>>)
    /\ UNCHANGED <<variant, now, users, drawers, nextId, nextNoteId, issued>>

\* ------------------------------------------------------------------ Next
Next ==
    \/ Jump
    \/ \E c \in Clients : Register(c)
    \/ \E c \in Clients : RegisterSave(c)
    \/ \E c \in Clients : Login(c)
    \/ \E c \in Clients : CreateDrawer(c)
    \/ \E c \in Clients : CreateDrawerSave(c)
    \/ \E c \in Clients : LoginDrawer(c)
    \/ \E c \in Clients : List(c)
    \/ \E c \in Clients : Create(c)
    \/ \E c \in Clients : Update(c)
    \/ \E c \in Clients : UpdateSave(c)
    \/ \E c \in Clients : Delete(c)
    \/ \E c \in Clients : DeleteOne(c)

Spec == Init /\ [][Next]_vars

\* ----------------------------------------------------- the two services
\* The account routes read and write users, drawers and issued only; the
\* note routes read and write notes only, and know of accounts through the
\* tokens alone.  Each half is checked on its own.

\* The account service, from an empty store.  No account route reads the
\* clock except to stamp the token it signs, so the clock stands still here.
NextAccounts ==
    \/ \E c \in Clients : Register(c)
    \/ \E c \in Clients : RegisterSave(c)
    \/ \E c \in Clients : Login(c)
    \/ \E c \in Clients : CreateDrawer(c)
    \/ \E c \in Clients : CreateDrawerSave(c)
    \/ \E c \in Clients : LoginDrawer(c)

SpecAccounts == Init /\ [][NextAccounts]_vars

\* The note service, from the store as the registration of a user and the
\* creation of a drawer at time 0 leave it; logins go on handing out tokens.
InitNotes ==
    /\ variant \in {1, 2}
    /\ now = 0
    /\ users = {[id |-> 1, name |-> "a@x.com", passwordHash |-> BcryptHash("pw1", "s1")]}
    /\ drawers = {[id |-> 2, name |-> "team1", passwordHash |-> BcryptHash("pw1", "s1")]}
    /\ notes = {}
    /\ nextId = 3
    /\ nextNoteId = 1
    /\ issued = {signToken([id |-> 1, type |-> "user"], 0),
                 signToken([id |-> 2, type |-> "drawer"], 0)}
    /\ pc = [c \in Clients |-> "idle"]
    /\ req = [c \in Clients |-> NoReq]
    /\ loc = [c \in Clients |-> NoLoc]
    /\ last = NoExchange

NextNotes ==
    \/ Jump
    \/ \E c \in Clients : Login(c)
    \/ \E c \in Clients : LoginDrawer(c)
    \/ \E c \in Clients : List(c)
    \/ \E c \in Clients : Create(c)
    \/ \E c \in Clients : Update(c)
    \/ \E c \in Clients : UpdateSave(c)
    \/ \E c \in Clients : Delete(c)
    \/ \E c \in Clients : DeleteOne(c)

SpecNotes == InitNotes /\ [][NextNotes]_vars

\* ============================================================ properties
ProtectedKinds == {"list", "create", "update", "delete"}

\* The header carries, after the scheme, a token signed by the service that
\* has not expired at time t.
ValidAt(header, t) ==
    /\ Len(header) >= 2
    /\ header[2].sig = "good"
    /\ Seconds(t) < header[2].exp

\* The principal {id, type} a header's token names
PrincipalOf(header) == [id |-> header[2].id, type |-> header[2].type]

\* This step completed an exchange / completed the exchange of a request that
\* came in with this very step (the handler did not wait for a second store
\* operation).
Exchanged == last' # last

AnsweredAtOnce == last' # last /\ pc' = pc

\* The messages of the error classes of the two services
DuplicateError ==
    {"User already exists", "Drawer already exists", "Email already in use", "Drawer name taken"}

\* The note the request r is about, if the store holds it
Target(r) == {n \in notes : n.id = r.noteId}

\* C1: an update or a delete by an authenticated principal of an existing
\* note whose (ownerType, ownerId) is not the principal's is answered 403
\* Forbidden, never with success, and leaves the note store as it was.
C1_ForeignWriteForbidden ==
    [][(/\ AnsweredAtOnce
        /\ last'.req.kind \in {"update", "delete"}
        /\ ValidAt(last'.req.header, now)
        /\ \E n \in Target(last'.req) :
              \/ n.ownerType # PrincipalOf(last'.req.header).type
              \/ n.ownerId # PrincipalOf(last'.req.header).id)
       => (last'.status = 403 /\ notes' = notes)]_vars

\* C2: a list answered with success holds only notes whose ownerType and
\* ownerId are the type and id of the token the request carried.
C2_ListOnlyOwn ==
    (last.req.kind = "list" /\ last.status = 200)
    => /\ Len(last.req.header) >= 2
       /\ \A i \in DOMAIN last.body :
            /\ last.body[i].ownerType = PrincipalOf(last.req.header).type
            /\ last.body[i].ownerId = PrincipalOf(last.req.header).id

\* C2 witness: a list came back with a note of the caller while the store
\* also holds a note of another principal.
C2_Witness ==
    /\ last.req.kind = "list"
    /\ last.status = 200
    /\ Len(last.body) >= 1
    /\ \E n \in notes : n.ownerId # PrincipalOf(last.req.header).id

\* C3: the user collection never holds two records with one email, nor the
\* drawer collection two records with one drawerName.
C3_UniqueNames ==
    /\ \A a, b \in users : a.name = b.name => a.id = b.id
    /\ \A a, b \in drawers : a.name = b.name => a.id = b.id

\* Whether the collection a login request looks into holds its name
Known(r) == \E a \in (IF r.kind = "login" THEN users ELSE drawers) : a.name = r.name

\* C4: of two failed logins on one route, one with a name the collection
\* does not hold and one with a name it holds but a wrong password, the
\* responses are the same: same status, same message.  (The two are taken
\* one right after the other, so the collection is the same for both.)
C4_SameLoginFailure ==
    [][(/\ Exchanged
        /\ last.req.kind \in {"login", "loginDrawer"}
        /\ last'.req.kind = last.req.kind
        /\ last.req.password # Missing /\ last'.req.password # Missing
        /\ last.token = NoToken /\ last'.token = NoToken
        /\ \/ ~Known(last.req) /\ Known(last'.req)
           \/ Known(last.req) /\ ~Known(last'.req))
       => (last'.status = last.status /\ last'.error = last.error)]_vars

\* C5: an update by an authenticated principal of a note id the store does
\* not hold is answered 404 NotFound and leaves the note store as it was.
C5_UpdateMissingNotFound ==
    [][(/\ AnsweredAtOnce
        /\ last'.req.kind = "update"
        /\ ValidAt(last'.req.header, now)
        /\ Target(last'.req) = {})
       => (last'.status = 404 /\ notes' = notes)]_vars

\* C6: no step changes the ownerType or the ownerId of a note that is in
\* the store before and after it.
C6_OwnerNeverChanges ==
    [][\A n \in notes : \A m \in notes' :
          n.id = m.id => (m.ownerType = n.ownerType /\ m.ownerId = n.ownerId)]_vars

\* C6 witness: an update whose body carried owner fields was applied.
C6_Witness ==
    /\ last.req.kind = "update"
    /\ last.status = 200
    /\ last.req.extra # NoExtra
    /\ \E n \in notes : n.id = last.req.noteId /\ n.title = last.req.title
                        /\ <<n>> = last.body

\* Whether the collection a registration looks into holds its name
Present(r) == \E a \in (IF r.kind = "register" THEN users ELSE drawers) : a.name = r.name

\* C7 as stated: a registration (register, createDrawer) for a name its
\* collection already holds is answered 400 with the duplicate error,
\* whatever its password; no token is issued and no record added.
C7_DuplicateWhateverPassword ==
    [][/\ (/\ AnsweredAtOnce
           /\ last'.req.kind \in {"register", "createDrawer"}
           /\ Present(last'.req))
          => /\ last'.status = 400 /\ last'.error \in DuplicateError
             /\ last'.token = NoToken /\ issued' = issued
             /\ users' = users /\ drawers' = drawers
       /\ \A c \in Clients :
            (pc[c] = "idle" /\ pc'[c] \in {"registerSave", "createDrawerSave"})
            => ~Present(req'[c])]_vars

\* C7 amended: the same for a registration that carries a password; one
\* without a password is answered 400 with the validation error instead.
C7_DuplicateRejected ==
    [][/\ (/\ AnsweredAtOnce
           /\ last'.req.kind \in {"register", "createDrawer"}
           /\ Present(last'.req))
          => /\ last'.status = 400
             /\ last'.req.password # Missing => last'.error \in DuplicateError
             /\ last'.req.password = Missing => last'.error = Msg(IF last'.req.kind = "register" THEN "user" ELSE "drawer", "required")
             /\ last'.token = NoToken /\ issued' = issued
             /\ users' = users /\ drawers' = drawers
       /\ \A c \in Clients :
            (pc[c] = "idle" /\ pc'[c] \in {"registerSave", "createDrawerSave"})
            => ~Present(req'[c])]_vars

\* C7 witness: a second registration of an email, with a password other
\* than the one of the first, was refused as a duplicate.
C7_Witness ==
    /\ last.req.kind = "register"
    /\ last.req.password # Missing
    /\ last.status = 400
    /\ last.error \in DuplicateError
    /\ \E a \in users : /\ a.name = last.req.name
                        /\ ~BcryptCompare(last.req.password, a.passwordHash)

\* C8: a request to a note route whose header is absent, holds no token or
\* holds a token that fails verification when it comes in is answered 401
\* and changes no note; the note store changes only for a verified token;
\* a handler that is under way runs for the principal of its verified
\* token, and a created note belongs to that principal.
C8_AuthGate ==
    [][/\ (last'.req.kind \in ProtectedKinds /\ ~ValidAt(last'.req.header, last'.req.at))
          => (last'.status = 401 /\ notes' = notes)
       /\ notes' # notes
          => (last'.req.kind \in ProtectedKinds /\ ValidAt(last'.req.header, last'.req.at))
       /\ \A c \in Clients :
            pc'[c] \in {"updateSave", "deleteOne"}
            => /\ req'[c].kind \in ProtectedKinds
               /\ ValidAt(req'[c].header, req'[c].at)
               /\ loc'[c].user = PrincipalOf(req'[c].header)
       /\ \A m \in notes' :
            (\A n \in notes : n.id # m.id)
            => /\ m.ownerType = PrincipalOf(last'.req.header).type
               /\ m.ownerId = PrincipalOf(last'.req.header).id]_vars

\* C8 witness: a note route answered 401 to a token the service had signed
\* (one that has expired since).
C8_Witness ==
    /\ last.req.kind \in ProtectedKinds
    /\ last.status = 401
    /\ Len(last.req.header) >= 2
    /\ last.req.header[2] \in issued

\* C9: in a list, of two notes the one created later (the one with the
\* larger _id) comes first.  Stated here for notes created at different
\* clock readings only, which is less than the claim says.
C9_NewestFirst ==
    (last.req.kind = "list" /\ last.status = 200)
    => \A i, j \in DOMAIN last.body :
          (/\ last.body[i].id > last.body[j].id
           /\ last.body[i].createdAt # last.body[j].createdAt)
          => i < j

\* C10: a note id that was handed out and is not in the store (its note was
\* deleted) is not in the store after any step either.
C10_DeletionFinal ==
    [][\A id \in 1..(nextNoteId - 1) :
          (\A n \in notes : n.id # id) => (\A m \in notes' : m.id # id)]_vars

\* C10 witness: the save of an update found its note deleted by a delete
\* that ran between the update's read and its write.
C10_Witness ==
    /\ last.req.kind = "update"
    /\ last.status = 500
    /\ \A n \in notes : n.id # last.req.noteId

====
